---- MODULE Spec2Model ----
(***************************************************************************)
(* smolbrain (src/index.js, final revision, lines 341-1022): a SQLite      *)
(* backed memory store driven by one CLI process per operation.            *)
(*                                                                         *)
(* The database is the shared state: table memories (rows in rowid order), *)
(* the AUTOINCREMENT counter sqlite_sequence, table memory_tags and the    *)
(* FTS index filled by the memories_ai trigger.  The code never opens a    *)
(* transaction, so every prepared statement commits on its own and the     *)
(* statements of two processes interleave freely.  A process is modelled   *)
(* by the handler it runs (op), its position (pc) and its locals.          *)
(***************************************************************************)
EXTENDS Integers, Sequences, FiniteSets, TLC

\* ------------------------------------------------------------------ bounds
MaxOps == 2          \* commands run one after the other in one behaviour
MaxClock == 1        \* seconds the wall clock can advance
MaxTagLen == 2       \* length of a -t tag list on the command line
MaxPage == 2         \* largest --limit, --tail and --offset passed

\* ------------------------------------------------------------- input sets
Procs == {1, 2}
Contents == {"c1", "c2"}
Tags == {"archived", "done", "task", "todo", "wip"}
ListTags == {"archived", "wip"}

\* byte-wise (BINARY collation) order of the tags used
TagRank(t) ==
  CASE t = "archived" -> 1
    [] t = "done" -> 2
    [] t = "task" -> 3
    [] t = "todo" -> 4
    [] t = "wip" -> 5

VALID_STATUSES == <<"todo", "wip", "done">>

Range(s) == {s[k] : k \in 1..Len(s)}

TagLists == UNION {[1..n -> ListTags] : n \in 0..MaxTagLen}

\* filter options of the listing commands.  An option not given is undefined
\* in the code, which tests limit, tail and offset for truth only: 0 stands
\* for undefined and for 0, and given keeps which of --limit and --tail were
\* on the command line.
OptsOf(tagSets, alls, bounds, limits, tails, offsets) ==
  {[tags |-> t, all |-> a, from |-> fr, to |-> to, limit |-> l, tail |-> tl,
    offset |-> o,
    given |-> {x \in {"limit"} : l # 0} \cup {x \in {"tail"} : tl # 0}] :
     t \in tagSets, a \in alls, fr \in bounds, to \in bounds, l \in limits,
     tl \in tails, o \in offsets}

\* the same options, --limit 0 and --tail 0 written out or not
GivenZero(O) ==
  UNION {{[o EXCEPT !.given = o.given \cup z] :
            z \in SUBSET ({"limit", "tail"} \ o.given)} : o \in O}

PageSizes == 0..MaxPage

\* what the text of add, task and edit comes from: the words after the
\* command, or else the characters piped to standard input
ArgInputs(parts) == {[textParts |-> a, data |-> <<>>] : a \in parts}
PipeInputs(datas) == {[textParts |-> <<>>, data |-> d] : d \in datas}

SeqInputs ==
  ArgInputs({<<c>> : c \in Contents} \cup {<<"">>, <<"c1", "c2">>})
    \cup PipeInputs({<<>>, <<" ">>, <<" ", "c", "1", " ">>})

\* what the callers pass: -t lists, contents, the tag of tag and untag, the
\* options, texts and statuses of the listing commands
SeqIn ==
  [lists |-> TagLists, inputs |-> SeqInputs, tags |-> Tags,
   opts |-> OptsOf({{}, {"wip", "todo"}}, BOOLEAN, {{}}, {0, 1}, {0, 1}, {0}),
   finds |-> {"c1", "c"}, statuses |-> {"", "done", "open"}]
ConcIn ==
  [lists |-> {<<>>, <<"wip">>}, inputs |-> ArgInputs({<<"c2">>}),
   tags |-> {"archived", "wip"},
   opts |-> OptsOf({{}}, BOOLEAN, {{}}, {0}, {0}, {0}),
   finds |-> {"c2"}, statuses |-> {""}]

\* ------------------------------------------------------------------ state
VARIABLES
  memories,      \* table memories: sequence of rows in rowid order
  seq,           \* sqlite_sequence entry of table memories
  memory_tags,   \* table memory_tags: set of <<memory_id, tag>>
  fts,           \* memories_fts: set of <<rowid, content>>
  clock,         \* last second the database clock was read at
  proc,          \* per process: handler, position, locals
  nops           \* operations started so far

vars == <<memories, seq, memory_tags, fts, clock, proc, nops>>

NULL == {}

\* embed(text): the provider's vector for text (deterministic per text)
embed(text) == {text}

NoOut == [status |-> "none", row |-> <<>>, tags |-> <<>>]
NoSnap == [memories |-> <<>>, memory_tags |-> {}]
NoCycle == [id |-> 0, tags |-> {}]
NoPrev == [op |-> "none", id |-> 0, tag |-> "", status |-> "none", store |-> NoSnap]

\* the filter options of a listing command, none given
NoOpts ==
  [tags |-> {}, all |-> FALSE, from |-> {}, to |-> {}, limit |-> 0, tail |-> 0,
   offset |-> 0, given |-> {}]

Idle ==
  [op |-> "none", pc |-> "idle", id |-> 0, tag |-> "", text |-> "",
   tags |-> <<>>, i |-> 0, rowid |-> 0, oldTags |-> <<>>, rows |-> <<>>,
   open |-> FALSE, out |-> NoOut, snap |-> NoSnap, cycle |-> NoCycle,
   opts |-> NoOpts, page |-> <<>>, recent |-> <<>>, total |-> 0, shown |-> <<>>,
   extra |-> <<>>, prev |-> NoPrev, calls |-> 0, printed |-> <<>>]

\* ------------------------------------------------------------ SQL helpers
\* SELECT ... FROM memories WHERE id = ?
SelectById(mem, id) == SelectSeq(mem, LAMBDA r : r.id = id)

\* the part of row the handlers select: id, timestamp, content
RowOf(r) == [id |-> r.id, timestamp |-> r.timestamp, content |-> r.content]

TagSetOf(mt, id) == {t \in Tags : <<id, t>> \in mt}

\* ORDER BY tag DESC in place of ORDER BY tag
RECURSIVE SortTagsDesc(_)
SortTagsDesc(S) ==
  IF S = {} THEN <<>>
  ELSE LET m == CHOOSE t \in S : \A u \in S : TagRank(t) >= TagRank(u)
       IN <<m>> \o SortTagsDesc(S \ {m})

RECURSIVE SortTags(_)
SortTags(S) ==
  IF S = {} THEN <<>>
  ELSE LET m == CHOOSE t \in S : \A u \in S : TagRank(t) <= TagRank(u)
       IN <<m>> \o SortTags(S \ {m})

\* getTagsForMemory: SELECT tag FROM memory_tags WHERE memory_id = ? ORDER BY tag
getTagsForMemory(mt, memoryId) == SortTags(TagSetOf(mt, memoryId))

\* a second insert of the pair takes it out again
InsertOrToggleTag(mt, id, tag) ==
  IF <<id, tag>> \in mt THEN mt \ {<<id, tag>>} ELSE mt \cup {<<id, tag>>}

\* INSERT OR IGNORE INTO memory_tags (memory_id, tag): the primary key
\* (memory_id, tag) makes a second insert of the pair a no-op
InsertOrIgnoreTag(mt, id, tag) == mt \cup {<<id, tag>>}

\* the counter is read but the new row does not advance past it
NextRowidStale(mem, s) == IF s = 0 THEN 1 ELSE s

\* AUTOINCREMENT: the new rowid is one more than the largest ever used
NextRowid(mem, s) == s + 1

\* INSERT INTO memories (content) VALUES (?) at second now; the timestamp
\* column takes its DEFAULT and embedding starts NULL
InsertedRow(mem, s, content, now) ==
  [id |-> NextRowid(mem, s), timestamp |-> now, content |-> content,
   embedding |-> NULL]

\* the UPDATE also refreshes the row's timestamp
SetEmbeddingTouch(mem, id, buf) ==
  [k \in 1..Len(mem) |->
     IF mem[k].id = id
     THEN [mem[k] EXCEPT !.embedding = buf, !.timestamp = clock]
     ELSE mem[k]]

\* UPDATE memories SET embedding = ? WHERE id = ?
SetEmbedding(mem, id, buf) ==
  [k \in 1..Len(mem) |->
     IF mem[k].id = id THEN [mem[k] EXCEPT !.embedding = buf] ELSE mem[k]]

\* no trigger: an insert into memories leaves the index as it was
memories_ai_missing(f, row) == f

\* TRIGGER memories_ai AFTER INSERT ON memories: INSERT INTO memories_fts
\* (rowid, content) VALUES (new.id, new.content), inside the inserting statement
memories_ai(f, row) == f \cup {<<row.id, row.content>>}

\* getDb: the schema statements are IF NOT EXISTS; the FTS index is rebuilt
\* from memories when the two row counts differ
getDb(mem, f) ==
  IF Cardinality(f) # Len(mem)
  THEN {<<mem[k].id, mem[k].content>> : k \in 1..Len(mem)}
  ELSE f

\* ----------------------------------------------------------------- listing
\* list: if (!limit && !tail) limit = 20
DefaultLimit == 20

\* what applyFilters reads; from and to hold no bound or one
NoFilter == [tags |-> {}, all |-> FALSE, from |-> {}, to |-> {}]

\* the NOT IN (... tag = 'archived') clause is left out
applyFiltersKeepArchived(mem, mt, f) ==
  SelectSeq(mem, LAMBDA r :
    /\ f.tags = {} \/ TagSetOf(mt, r.id) \cap f.tags # {}
    /\ \A t \in f.from : r.timestamp >= t
    /\ \A t \in f.to : r.timestamp <= t)

\* applyFilters: JOIN memory_tags ... tag IN (tags); unless all, id NOT IN
\* (the ids tagged 'archived'); timestamp >= from; timestamp <= to: the
\* memories these clauses select, each once
applyFilters(mem, mt, f) ==
  SelectSeq(mem, LAMBDA r :
    /\ f.tags = {} \/ TagSetOf(mt, r.id) \cap f.tags # {}
    /\ f.all \/ "archived" \notin TagSetOf(mt, r.id)
    /\ \A t \in f.from : r.timestamp >= t
    /\ \A t \in f.to : r.timestamp <= t)

\* ORDER BY m.timestamp ASC or DESC: every order of the rows that is sorted
\* by timestamp; SQL fixes no order among rows of one timestamp
RECURSIVE Orderings(_, _)
Orderings(R, desc) ==
  IF R = {} THEN {<<>>}
  ELSE LET first == {r \in R : \A u \in R :
                       IF desc THEN r.timestamp >= u.timestamp
                       ELSE r.timestamp <= u.timestamp}
       IN UNION {{<<r>> \o o : o \in Orderings(R \ {r}, desc)} : r \in first}

Reverse(s) == [k \in 1..Len(s) |-> s[Len(s) + 1 - k]]

\* queryMemories without "if (tail) rows.reverse()"
queryMemoriesUnreversed(matches, limit, tail, offset) ==
  LET desc == tail # 0
      n == IF limit # 0 THEN limit ELSE tail
      rows == {RowOf(matches[k]) : k \in 1..Len(matches)}
      cut(s) == IF n # 0
                THEN SubSeq(s, offset + 1, IF offset + n < Len(s) THEN offset + n ELSE Len(s))
                ELSE s
  IN {[rows |-> cut(s), total |-> Len(matches)] : s \in Orderings(rows, desc)}

\* queryMemories: the results a query can give.  limit, tail and offset are
\* numbers, 0 standing for absent as well (the code tests them for truth);
\* LIMIT (limit || tail) and OFFSET offset cut the ordered rows, a tail page
\* is reversed, total counts the distinct matches.
queryMemories(matches, limit, tail, offset) ==
  LET desc == tail # 0
      n == IF limit # 0 THEN limit ELSE tail
      rows == {RowOf(matches[k]) : k \in 1..Len(matches)}
      cut(s) == IF n # 0
                THEN SubSeq(s, offset + 1, IF offset + n < Len(s) THEN offset + n ELSE Len(s))
                ELSE s
  IN {[rows |-> IF desc THEN Reverse(cut(s)) ELSE cut(s), total |-> Len(matches)] :
        s \in Orderings(rows, desc)}

\* list: applyFilters, the default limit, queryMemories
list(mem, mt, f, limit, tail, offset) ==
  queryMemories(applyFilters(mem, mt, f),
                IF limit = 0 /\ tail = 0 THEN DefaultLimit ELSE limit, tail, offset)

\* --------------------------------------------------------- find: search()
\* the characters of the texts used as contents and as queries
Chars(s) ==
  CASE s = "c1" -> <<"c", "1">>
    [] s = "c2" -> <<"c", "2">>
    [] s = "ab" -> <<"a", "b">>
    [] s = "AB" -> <<"A", "B">>
    [] s = "abc" -> <<"a", "b", "c">>
    [] s = "a b" -> <<"a", " ", "b">>
    [] s = "b a" -> <<"b", " ", "a">>
    [] s = "a-b" -> <<"a", "-", "b">>
    [] s = "c" -> <<"c">>

\* what /\s+/ matches
Spaces == {" "}

\* unicode61: letters and digits make tokens, everything else separates
Separators == {" ", "-"}

\* unicode61 folds case; String.prototype.toLowerCase does the same here
Fold(ch) == CASE ch = "A" -> "a" [] ch = "B" -> "b" [] OTHER -> ch

FoldAll(cs) == [k \in 1..Len(cs) |-> Fold(cs[k])]

\* the maximal runs of cs between characters of seps
RECURSIVE Runs(_, _, _)
Runs(cs, seps, cur) ==
  IF cs = <<>> THEN (IF cur = <<>> THEN <<>> ELSE <<cur>>)
  ELSE IF Head(cs) \in seps
       THEN (IF cur = <<>> THEN <<>> ELSE <<cur>>) \o Runs(Tail(cs), seps, <<>>)
       ELSE Runs(Tail(cs), seps, Append(cur, Head(cs)))

\* text.split(/\s+/).filter(Boolean)
SplitWords(cs) == Runs(cs, Spaces, <<>>)

\* the FTS5 tokenizer on a document or on a quoted string of the query
Tokenize(cs) == Runs(FoldAll(cs), Separators, <<>>)

\* a quoted string is a phrase: its tokens, next to each other, in order
PhraseIn(doc, phrase) ==
  \E k \in 0..(Len(doc) - Len(phrase)) :
    \A j \in 1..Len(phrase) : doc[k + j] = phrase[j]

\* memories_fts MATCH '"w1" "w2" ...': every quoted word is a phrase and all
\* of them must occur; a phrase without a token matches no row
ftsMatch(content, text) ==
  LET doc == Tokenize(Chars(content))
      words == SplitWords(Chars(text))
  IN \A k \in 1..Len(words) :
       /\ Tokenize(words[k]) # <<>>
       /\ PhraseIn(doc, Tokenize(words[k]))

\* search: JOIN memories_fts ON m.id = memories_fts.rowid WHERE memories_fts
\* MATCH ?, then applyFilters
searchMatches(mem, mt, f, idx, text) ==
  SelectSeq(applyFilters(mem, mt, f),
            LAMBDA r : \E e \in idx : e[1] = r.id /\ ftsMatch(e[2], text))

\* ------------------------------------------------------- tasks [status]
\* statuses = status ? [status] : ["todo", "wip"]
TaskStatuses(status) == IF status = "" THEN {"todo", "wip"} ELSE {status}

\* JOIN memory_tags mt1 ... mt1.tag IN (statuses), then applyFilters with the
\* tag filter on a second join
tasksMatches(mem, mt, f, status) ==
  SelectSeq(applyFilters(mem, mt, f),
            LAMBDA r : TagSetOf(mt, r.id) \cap TaskStatuses(status) # {})

\* parseFilterOptions: if (options.limit && options.tail) exit(1)
parseFilterOptions(o) == ~(o.limit # 0 /\ o.tail # 0)

\* list, search and tasks: 20 when neither limit nor tail is given
EffectiveLimit(o) == IF o.limit = 0 /\ o.tail = 0 THEN DefaultLimit ELSE o.limit

\* --------------------------------------------------------------- similar
\* the provider's vector for a text; the texts "ab" and "AB" get one vector
Vec(text) ==
  CASE text = "c1" -> <<1, 0>>
    [] text = "c2" -> <<0, 1>>
    [] text = "ab" -> <<2, 1>>
    [] text = "AB" -> <<2, 1>>
    [] text = "abc" -> <<1, 2>>
    [] text = "a b" -> <<1, 1>>
    [] text = "b a" -> <<1, 1>>
    [] text = "a-b" -> <<0, 2>>
    [] text = "c" -> <<0, 0>>

\* new Float32Array(buf.buffer, ...): the vector a stored buffer holds
Float32Array(buf) == Vec(CHOOSE t \in buf : TRUE)

RECURSIVE Dot(_, _)
Dot(a, b) ==
  IF a = <<>> THEN 0 ELSE Head(a) * Head(b) + Dot(Tail(a), Tail(b))

\* cosineSimilarity: the dot product of the two vectors
cosineSimilarity(a, b) == Dot(a, b)

\* similar: count = limit || tail || 10
SimilarDefault == 10

\* the rows a join with memory_tags on tag IN (f.tags) gives for the
\* selected memories when no DISTINCT folds them: one per joined tag row
RECURSIVE Joined(_, _, _)
Joined(rows, mt, f) ==
  IF rows = <<>> THEN <<>>
  ELSE LET r == Head(rows)
           n == IF f.tags = {} THEN 1 ELSE Cardinality(TagSetOf(mt, r.id) \cap f.tags)
       IN [k \in 1..n |-> r] \o Joined(Tail(rows), mt, f)

\* SELECT m.id, m.timestamp, m.content, m.embedding FROM memories m <joins>
\* WHERE m.embedding IS NOT NULL AND <applyFilters' clauses>, in rowid order
similarRows(mem, mt, f) ==
  Joined(applyFilters(SelectSeq(mem, LAMBDA r : r.embedding # NULL), mt, f), mt, f)

\* rows.map(...): each row with its similarity to the query
Scored(rows, queryVec) ==
  [k \in 1..Len(rows) |->
     [id |-> rows[k].id, timestamp |-> rows[k].timestamp,
      content |-> rows[k].content,
      similarity |-> cosineSimilarity(queryVec, Float32Array(rows[k].embedding))]]

RemoveAt(s, k) == SubSeq(s, 1, k - 1) \o SubSeq(s, k + 1, Len(s))

\* scored.sort((a, b) => b.similarity - a.similarity): Array.prototype.sort
\* is stable, rows of one similarity keep their order
RECURSIVE SortBySimilarity(_)
SortBySimilarity(s) ==
  IF s = <<>> THEN <<>>
  ELSE LET k == CHOOSE i \in 1..Len(s) :
                  /\ \A j \in 1..Len(s) : s[i].similarity >= s[j].similarity
                  /\ \A j \in 1..(i - 1) : s[j].similarity < s[i].similarity
       IN <<s[k]>> \o SortBySimilarity(RemoveAt(s, k))

Max(a, b) == IF a >= b THEN a ELSE b
Min(a, b) == IF a <= b THEN a ELSE b

\* Array.prototype.slice(start, end): a negative index counts from the end
slice(s, start, end) ==
  LET from == IF start < 0 THEN Max(Len(s) + start, 0) ELSE Min(start, Len(s))
      to == IF end < 0 THEN Max(Len(s) + end, 0) ELSE Min(end, Len(s))
  IN SubSeq(s, from + 1, to)

\* similar: the page and the total for options o
similar(mem, mt, o, text) ==
  LET scored == SortBySimilarity(Scored(similarRows(mem, mt, o), Vec(text)))
      effectiveOffset == o.offset
      count == IF o.limit # 0 THEN o.limit
               ELSE IF o.tail # 0 THEN o.tail ELSE SimilarDefault
      sliced == IF o.tail # 0
                THEN Reverse(slice(scored,
                                   Max(0, Len(scored) - effectiveOffset - count),
                                   Len(scored) - effectiveOffset))
                ELSE slice(scored, effectiveOffset, effectiveOffset + count)
  IN [rows |-> sliced, total |-> Len(scored)]

\* ------------------------------------------------------------------- Init
SeedRow == [id |-> 1, timestamp |-> 0, content |-> "c1", embedding |-> embed("c1")]

\* tag sets of the one memory a behaviour may start with; each is what add or
\* task followed by tag, untag, rm or mark leaves behind
SeedTagSets ==
  {{}, {"archived"}, {"todo"}, {"task"}, {"task", "todo"}, {"task", "done"},
   {"task", "wip", "archived"}}

EmptyStore ==
  /\ memories = <<>>
  /\ seq = 0
  /\ memory_tags = {}
  /\ fts = {}

SeededStore(tagSets) ==
  /\ memories = <<SeedRow>>
  /\ seq = 1
  /\ \E S \in tagSets : memory_tags = {<<1, t>> : t \in S}
  /\ fts = {<<1, "c1">>}

\* a memory whose add died in embed(): stored and tagged, embedding NULL
UnembeddedStore(tagSets) ==
  /\ memories = <<[SeedRow EXCEPT !.embedding = NULL]>>
  /\ seq = 1
  /\ \E S \in tagSets : memory_tags = {<<1, t>> : t \in S}
  /\ fts = {<<1, "c1">>}

\* a second memory, added in the same second or the next
PairTagSets == {{}, {"task", "wip"}}

SeededPair(tagSets, pairSets) ==
  /\ \E t \in {0, 1} :
       memories = <<SeedRow, [id |-> 2, timestamp |-> t, content |-> "c2",
                              embedding |-> embed("c2")]>>
  /\ seq = 2
  /\ \E S \in tagSets, T \in pairSets :
       memory_tags = {<<1, t>> : t \in S} \cup {<<2, t>> : t \in T}
  /\ fts = {<<1, "c1">>, <<2, "c2">>}

\* timestamps of n memories added one after the other
Stamps(n) ==
  {st \in [1..n -> 0..MaxClock] : \A k \in 1..(n - 1) : st[k] <= st[k + 1]}

\* the store after adds of contents cs at seconds st, with tag sets tg;
\* em[k] is false for an add that died in embed()
Shelf(cs, st, tg, em) ==
  /\ memories = [k \in 1..Len(cs) |->
                   [id |-> k, timestamp |-> st[k], content |-> cs[k],
                    embedding |-> IF em[k] THEN embed(cs[k]) ELSE NULL]]
  /\ seq = Len(cs)
  /\ memory_tags = {r \in (1..Len(cs)) \X Tags : r[2] \in tg[r[1]]}
  /\ fts = {<<k, cs[k]>> : k \in 1..Len(cs)}

\* a store grown past one default page: DefaultLimit + 1 untagged memories
\* added one second apart, the last of them at second 0
BulkStore ==
  LET n == DefaultLimit + 1 IN
    /\ memories = [k \in 1..n |-> [id |-> k, timestamp |-> k - n, content |-> "c1",
                                   embedding |-> embed("c1")]]
    /\ seq = n
    /\ memory_tags = {}
    /\ fts = {<<k, "c1">> : k \in 1..n}

Quiet ==
  /\ clock = 0
  /\ proc = [p \in Procs |-> Idle]
  /\ nops = 0

Init == (EmptyStore \/ SeededStore(SeedTagSets)) /\ Quiet

\* ------------------------------------------------------- process plumbing
Snap == [memories |-> memories, memory_tags |-> memory_tags]

Set(p, r) == proc' = [proc EXCEPT ![p] = r]

\* no other process is running
Alone(p) == \A q \in Procs \ {p} : proc[q].pc = "idle"

\* the handler starts: the process is created with its arguments; snap
\* remembers the tables a process found when it started alone.  Process 1
\* names the invocation that starts first.
Start(p, r) ==
  /\ proc[p].pc = "idle"
  /\ p = 1 \/ nops > 0
  /\ nops < MaxOps
  /\ nops' = nops + 1
  /\ Set(p, [r EXCEPT !.snap = IF Alone(p) THEN Snap ELSE NoSnap,
                      !.cycle = proc[p].cycle, !.prev = proc[p].prev,
                      !.printed = proc[p].printed])
  /\ UNCHANGED <<memories, seq, memory_tags, fts, clock>>

\* a step that writes nothing but the process's own locals
Local(p, r) ==
  /\ Set(p, r)
  /\ UNCHANGED <<memories, seq, memory_tags, fts, clock, nops>>

\* db.close() and the handler's return
Done(r, status) == [r EXCEPT !.pc = "done", !.open = FALSE, !.out.status = status]

\* ids a caller can pass: every id ever assigned and one that was not
IdInputs == 1..(seq + 1)

\* ----------------------------------------------------------- readInput
\* Array.prototype.join(" ")
RECURSIVE Join(_)
Join(parts) ==
  IF parts = <<>> THEN ""
  ELSE IF Len(parts) = 1 THEN parts[1]
  ELSE parts[1] \o " " \o Join(Tail(parts))

\* the characters as one string
RECURSIVE Concat(_)
Concat(cs) == IF cs = <<>> THEN "" ELSE Head(cs) \o Concat(Tail(cs))

\* String.prototype.trim
RECURSIVE TrimStart(_)
TrimStart(cs) ==
  IF cs # <<>> /\ Head(cs) \in Spaces THEN TrimStart(Tail(cs)) ELSE cs

Trim(cs) == Reverse(TrimStart(Reverse(TrimStart(cs))))

\* readInput: the words joined when there are any; otherwise standard input
\* trimmed, and "No input provided." with exit(1) when that is empty
readInput(textParts, data) ==
  IF Len(textParts) > 0
  THEN [ok |-> TRUE, text |-> Join(textParts)]
  ELSE LET text == Concat(Trim(data)) IN [ok |-> text # "", text |-> text]

\* the process after readInput: at the callback's first statement, or gone
AfterInput(r, input) ==
  LET got == readInput(input.textParts, input.data)
  IN IF got.ok THEN [r EXCEPT !.text = got.text]
     ELSE [Idle EXCEPT !.op = r.op, !.pc = "done", !.id = r.id,
                       !.out.status = "no_input"]

\* ----------------------------------------------------- add / task: store()
BeginAdd(p, in) ==
  \E input \in in.inputs, tags \in in.lists :
    Start(p, AfterInput([Idle EXCEPT !.op = "add", !.pc = "s_insert",
                                     !.tags = tags], input))

\* the status tag of a new task is left out
TaskTagsNoTodo(extra) == <<"task">> \o extra

\* task: const tags = ["task", "todo", ...options.tag]
TaskTags(extra) == <<"task", "todo">> \o extra

\* task command: store(text, tags); extra is options.tag, the -t values
BeginTask(p, in) ==
  \E input \in in.inputs, extra \in in.lists :
    Start(p, AfterInput([Idle EXCEPT !.op = "task", !.pc = "s_insert",
                                     !.extra = extra, !.tags = TaskTags(extra)],
                        input))

\* store: getDb(); INSERT INTO memories (content) VALUES (?)
StoreInsert(p) ==
  /\ proc[p].pc = "s_insert"
  /\ \E now \in clock..MaxClock :
       LET row == InsertedRow(memories, seq, proc[p].text, now) IN
         /\ memories' = Append(memories, row)
         /\ seq' = row.id
         /\ fts' = memories_ai(getDb(memories, fts), row)
         /\ clock' = now
         /\ Set(p, [proc[p] EXCEPT
               !.open = TRUE, !.rowid = row.id, !.i = 1,
               !.pc = IF Len(proc[p].tags) > 0 THEN "s_tags" ELSE "s_embed"])
  /\ UNCHANGED <<memory_tags, nops>>

\* store: for (const tag of tags) insert.run(lastInsertRowid, tag)
StoreTag(p) ==
  /\ proc[p].pc = "s_tags"
  /\ memory_tags' = InsertOrIgnoreTag(memory_tags, proc[p].rowid,
                                      proc[p].tags[proc[p].i])
  /\ Set(p, [proc[p] EXCEPT
        !.i = @ + 1,
        !.pc = IF proc[p].i < Len(proc[p].tags) THEN "s_tags" ELSE "s_embed"])
  /\ UNCHANGED <<memories, seq, fts, clock, nops>>

\* store: const buf = await embed(text), the provider answers
StoreEmbed(p) ==
  /\ proc[p].pc = "s_embed"
  /\ Local(p, [proc[p] EXCEPT !.pc = "s_update", !.calls = @ + 1])

\* store: await embed(text) rejects; nothing catches it and the process dies
StoreEmbedFails(p) ==
  /\ proc[p].pc = "s_embed"
  /\ Local(p, [proc[p] EXCEPT !.pc = "failed", !.out.status = "failed",
                              !.calls = @ + 1])

\* store without its UPDATE: the vector is computed and dropped
StoreUpdateSkipped(p) ==
  /\ proc[p].pc = "s_update"
  /\ Local(p, [proc[p] EXCEPT !.pc = "s_row"])

\* store: UPDATE memories SET embedding = ? WHERE id = ?
StoreUpdate(p) ==
  /\ proc[p].pc = "s_update"
  /\ memories' = SetEmbedding(memories, proc[p].rowid, embed(proc[p].text))
  /\ Set(p, [proc[p] EXCEPT !.pc = "s_row"])
  /\ UNCHANGED <<seq, memory_tags, fts, clock, nops>>

\* store: SELECT id, timestamp, content FROM memories WHERE id = ?, then
\* getTagsForMemory(db, lastInsertRowid); db.close(); return
StoreReturn(p) ==
  /\ proc[p].pc = "s_row"
  /\ LET sel == SelectById(memories, proc[p].rowid) IN
       Local(p, [Done(proc[p], "ok") EXCEPT
          !.out.row = IF sel = <<>> THEN <<>> ELSE <<RowOf(sel[1])>>,
          !.out.tags = getTagsForMemory(memory_tags, proc[p].rowid)])

\* ------------------------------------------------------ get: getById()
BeginGet(p) ==
  \E id \in IdInputs :
    Start(p, [Idle EXCEPT !.op = "get", !.pc = "g_select", !.id = id])

\* getById over the tables: the row and its tags, or nothing
getById(mem, mt, id) ==
  LET sel == SelectById(mem, id) IN
    IF sel = <<>>
    THEN [status |-> "notfound", row |-> <<>>, tags |-> <<>>]
    ELSE [status |-> "ok", row |-> <<RowOf(sel[1])>>,
          tags |-> getTagsForMemory(mt, sel[1].id)]

GetById(p) ==
  /\ proc[p].pc = "g_select"
  /\ fts' = getDb(memories, fts)
  /\ Set(p, [Done(proc[p], "ok") EXCEPT
        !.out = getById(memories, memory_tags, proc[p].id)])
  /\ UNCHANGED <<memories, seq, memory_tags, clock, nops>>

\* ------------------------------------------------- mark: setTaskStatus()
BeginMark(p) ==
  \E id \in IdInputs, k \in 1..Len(VALID_STATUSES) :
    Start(p, [Idle EXCEPT !.op = "mark", !.pc = "m_check", !.id = id,
                          !.tag = VALID_STATUSES[k]])

\* setTaskStatus: getDb(); SELECT id FROM memories WHERE id = ?
MarkCheck(p) ==
  /\ proc[p].pc = "m_check"
  /\ fts' = getDb(memories, fts)
  /\ Set(p, IF SelectById(memories, proc[p].id) = <<>>
            THEN Done(proc[p], "notfound")
            ELSE [proc[p] EXCEPT !.pc = "m_tags", !.open = TRUE])
  /\ UNCHANGED <<memories, seq, memory_tags, clock, nops>>

\* a memory carrying a status tag passes for a task
MarkTagsStatusIsTask(p) ==
  /\ proc[p].pc = "m_tags"
  /\ Local(p, IF Range(getTagsForMemory(memory_tags, proc[p].id))
                    \cap ({"task"} \cup Range(VALID_STATUSES)) # {}
              THEN [proc[p] EXCEPT !.pc = "m_delete"]
              ELSE Done(proc[p], "not_task"))

\* setTaskStatus: tags = getTagsForMemory(db, id); if (!tags.includes("task"))
MarkTags(p) ==
  /\ proc[p].pc = "m_tags"
  /\ Local(p, IF "task" \in Range(getTagsForMemory(memory_tags, proc[p].id))
              THEN [proc[p] EXCEPT !.pc = "m_delete"]
              ELSE Done(proc[p], "not_task"))

\* the DELETE names only 'todo'
DeleteTodoOnly(mt, id) == {r \in mt : ~(r[1] = id /\ r[2] = "todo")}

\* DELETE FROM memory_tags WHERE memory_id = ? AND tag IN ('todo','wip','done')
DeleteStatusTags(mt, id) ==
  {r \in mt : ~(r[1] = id /\ r[2] \in {"todo", "wip", "done"})}

\* the DELETE has no "memory_id = ?": every memory loses its status tags
MarkDeleteEveryMemory(p) ==
  /\ proc[p].pc = "m_delete"
  /\ memory_tags' = {r \in memory_tags : r[2] \notin {"todo", "wip", "done"}}
  /\ Set(p, [proc[p] EXCEPT !.pc = "m_insert"])
  /\ UNCHANGED <<memories, seq, fts, clock, nops>>

\* setTaskStatus: the DELETE
MarkDelete(p) ==
  /\ proc[p].pc = "m_delete"
  /\ memory_tags' = DeleteStatusTags(memory_tags, proc[p].id)
  /\ Set(p, [proc[p] EXCEPT !.pc = "m_insert"])
  /\ UNCHANGED <<memories, seq, fts, clock, nops>>

\* setTaskStatus: INSERT OR IGNORE (id, newTag); db.close()
MarkInsert(p) ==
  /\ proc[p].pc = "m_insert"
  /\ memory_tags' = InsertOrIgnoreTag(memory_tags, proc[p].id, proc[p].tag)
  /\ Set(p, Done(proc[p], "ok"))
  /\ UNCHANGED <<memories, seq, fts, clock, nops>>

\* ------------------------------------------------------------------ edit
BeginEdit(p, in) ==
  \E id \in IdInputs, input \in in.inputs :
    Start(p, AfterInput([Idle EXCEPT !.op = "edit", !.pc = "e_select", !.id = id],
                        input))

\* edit: getDb(); SELECT id, timestamp, content FROM memories WHERE id = ?
EditSelect(p) ==
  /\ proc[p].pc = "e_select"
  /\ fts' = getDb(memories, fts)
  /\ Set(p, IF SelectById(memories, proc[p].id) = <<>>
            THEN Done(proc[p], "notfound")
            ELSE [proc[p] EXCEPT !.pc = "e_tags", !.open = TRUE])
  /\ UNCHANGED <<memories, seq, memory_tags, clock, nops>>

\* the filter on "archived" is missing
EditOldTagsUnfiltered(mt, id) == getTagsForMemory(mt, id)

\* edit: getTagsForMemory(db, old.id).filter((t) => t !== "archived")
EditOldTags(mt, id) ==
  SelectSeq(getTagsForMemory(mt, id), LAMBDA t : t # "archived")

\* edit: const oldTags = ...
EditTags(p) ==
  /\ proc[p].pc = "e_tags"
  /\ Local(p, [proc[p] EXCEPT
        !.pc = "e_archive",
        !.oldTags = EditOldTags(memory_tags, proc[p].id)])

\* edit without the insert of archived on the original
EditArchiveSkipped(p) ==
  /\ proc[p].pc = "e_archive"
  /\ Local(p, [proc[p] EXCEPT !.pc = "e_insert"])

\* edit: INSERT OR IGNORE INTO memory_tags VALUES (old.id, 'archived')
EditArchive(p) ==
  /\ proc[p].pc = "e_archive"
  /\ memory_tags' = InsertOrIgnoreTag(memory_tags, proc[p].id, "archived")
  /\ Set(p, [proc[p] EXCEPT !.pc = "e_insert"])
  /\ UNCHANGED <<memories, seq, fts, clock, nops>>

\* edit: INSERT INTO memories (content) VALUES (newText)
EditInsert(p) ==
  /\ proc[p].pc = "e_insert"
  /\ \E now \in clock..MaxClock :
       LET row == InsertedRow(memories, seq, proc[p].text, now) IN
         /\ memories' = Append(memories, row)
         /\ seq' = row.id
         /\ fts' = memories_ai(fts, row)
         /\ clock' = now
         /\ Set(p, [proc[p] EXCEPT
               !.rowid = row.id, !.i = 1,
               !.pc = IF Len(proc[p].oldTags) > 0 THEN "e_copy" ELSE "e_embed"])
  /\ UNCHANGED <<memory_tags, nops>>

\* edit: for (const tag of oldTags) insertTag.run(lastInsertRowid, tag)
EditCopy(p) ==
  /\ proc[p].pc = "e_copy"
  /\ memory_tags' = InsertOrIgnoreTag(memory_tags, proc[p].rowid,
                                      proc[p].oldTags[proc[p].i])
  /\ Set(p, [proc[p] EXCEPT
        !.i = @ + 1,
        !.pc = IF proc[p].i < Len(proc[p].oldTags) THEN "e_copy" ELSE "e_embed"])
  /\ UNCHANGED <<memories, seq, fts, clock, nops>>

\* edit: const buf = await embed(newText), the provider answers
EditEmbed(p) ==
  /\ proc[p].pc = "e_embed"
  /\ Local(p, [proc[p] EXCEPT !.pc = "e_update", !.calls = @ + 1])

\* edit: await embed(newText) rejects and the process dies
EditEmbedFails(p) ==
  /\ proc[p].pc = "e_embed"
  /\ Local(p, [proc[p] EXCEPT !.pc = "failed", !.out.status = "failed",
                              !.calls = @ + 1])

\* edit: UPDATE memories SET embedding = ? WHERE id = ?
EditUpdate(p) ==
  /\ proc[p].pc = "e_update"
  /\ memories' = SetEmbedding(memories, proc[p].rowid, embed(proc[p].text))
  /\ Set(p, [proc[p] EXCEPT !.pc = "e_row"])
  /\ UNCHANGED <<seq, memory_tags, fts, clock, nops>>

\* edit: SELECT the new row, getTagsForMemory(db, lastInsertRowid), db.close()
EditReturn(p) ==
  /\ proc[p].pc = "e_row"
  /\ LET sel == SelectById(memories, proc[p].rowid) IN
       Local(p, [Done(proc[p], "ok") EXCEPT
          !.out.row = IF sel = <<>> THEN <<>> ELSE <<RowOf(sel[1])>>,
          !.out.tags = getTagsForMemory(memory_tags, proc[p].rowid)])

\* ------------------------------------- tag, untag, rm, restore: withMemory
BeginTag(p, in) ==
  \E id \in IdInputs, t \in in.tags :
    Start(p, [Idle EXCEPT !.op = "tag", !.pc = "w_check", !.id = id, !.tag = t])

BeginUntag(p, in) ==
  \E id \in IdInputs, t \in in.tags :
    Start(p, [Idle EXCEPT !.op = "untag", !.pc = "w_check", !.id = id, !.tag = t])

BeginRm(p) ==
  \E id \in IdInputs :
    Start(p, [Idle EXCEPT !.op = "rm", !.pc = "w_check", !.id = id])

BeginRestore(p) ==
  \E id \in IdInputs :
    Start(p, [Idle EXCEPT !.op = "restore", !.pc = "w_check", !.id = id])

\* withMemory without the test of the row: fn runs for any id
withMemoryUnchecked(p) ==
  /\ proc[p].pc = "w_check"
  /\ fts' = getDb(memories, fts)
  /\ Set(p, [proc[p] EXCEPT !.pc = "w_fn", !.open = TRUE])
  /\ UNCHANGED <<memories, seq, memory_tags, clock, nops>>

\* withMemory: getDb(); SELECT id FROM memories WHERE id = ?; fn(db, row)
withMemory(p) ==
  /\ proc[p].pc = "w_check"
  /\ fts' = getDb(memories, fts)
  /\ Set(p, IF SelectById(memories, proc[p].id) = <<>>
            THEN Done(proc[p], "notfound")
            ELSE [proc[p] EXCEPT !.pc = "w_fn", !.open = TRUE])
  /\ UNCHANGED <<memories, seq, memory_tags, clock, nops>>

\* tag: INSERT OR IGNORE (row.id, tag); getTagsForMemory; db.close()
TagInsert(p) ==
  /\ proc[p].pc = "w_fn" /\ proc[p].op = "tag"
  /\ memory_tags' = InsertOrIgnoreTag(memory_tags, proc[p].id, proc[p].tag)
  /\ Set(p, [proc[p] EXCEPT !.pc = "t_read"])
  /\ UNCHANGED <<memories, seq, fts, clock, nops>>

TagRead(p) ==
  /\ proc[p].pc = "t_read"
  /\ Local(p, [Done(proc[p], "ok") EXCEPT
        !.out.tags = getTagsForMemory(memory_tags, proc[p].id)])

\* the DELETE has no "AND tag = ?"
DeleteAllTags(mt, id, tag) == {r \in mt : r[1] # id}

\* DELETE FROM memory_tags WHERE memory_id = ? AND tag = ?
DeleteTag(mt, id, tag) == mt \ {<<id, tag>>}

\* untag: changes = DELETE...changes; if (changes === 0) close and return
UntagDelete(p) ==
  /\ proc[p].pc = "w_fn" /\ proc[p].op = "untag"
  /\ memory_tags' = DeleteTag(memory_tags, proc[p].id, proc[p].tag)
  /\ Set(p, IF <<proc[p].id, proc[p].tag>> \in memory_tags
            THEN [proc[p] EXCEPT !.pc = "u_read"]
            ELSE Done(proc[p], "nochange"))
  /\ UNCHANGED <<memories, seq, fts, clock, nops>>

UntagRead(p) ==
  /\ proc[p].pc = "u_read"
  /\ Local(p, [Done(proc[p], "ok") EXCEPT
        !.out.tags = getTagsForMemory(memory_tags, proc[p].id)])

\* rm without the early return: the insert runs whatever the tags are
RmTagsUnchecked(p) ==
  /\ proc[p].pc = "w_fn" /\ proc[p].op = "rm"
  /\ Local(p, [proc[p] EXCEPT !.pc = "r_insert"])

\* rm: tags = getTagsForMemory; if (tags.includes("archived")) close, return
RmTags(p) ==
  /\ proc[p].pc = "w_fn" /\ proc[p].op = "rm"
  /\ Local(p, IF "archived" \in Range(getTagsForMemory(memory_tags, proc[p].id))
              THEN Done(proc[p], "already")
              ELSE [proc[p] EXCEPT !.pc = "r_insert"])

\* rm deletes the row (and, by ON DELETE CASCADE, its tags)
RmWriteDelete(mem, mt, id) ==
  [memories |-> SelectSeq(mem, LAMBDA r : r.id # id),
   memory_tags |-> {r \in mt : r[1] # id}]

\* rm's one write, on both tables: INSERT OR IGNORE INTO memory_tags
\* (memory_id, tag) VALUES (?, 'archived'); no row of memories is touched
RmWrite(mem, mt, id) ==
  [memories |-> mem, memory_tags |-> InsertOrIgnoreTag(mt, id, "archived")]

\* rm: the write, then db.close()
RmInsert(p) ==
  /\ proc[p].pc = "r_insert"
  /\ LET w == RmWrite(memories, memory_tags, proc[p].id) IN
       /\ memories' = w.memories
       /\ memory_tags' = w.memory_tags
  /\ Set(p, Done(proc[p], "ok"))
  /\ UNCHANGED <<seq, fts, clock, nops>>

\* restore: tags = getTagsForMemory; if (!tags.includes("archived")) return
RestoreTags(p) ==
  /\ proc[p].pc = "w_fn" /\ proc[p].op = "restore"
  /\ Local(p, IF "archived" \in Range(getTagsForMemory(memory_tags, proc[p].id))
              THEN [proc[p] EXCEPT !.pc = "x_delete"]
              ELSE Done(proc[p], "not_archived"))

\* restore: DELETE ... WHERE memory_id = ? AND tag = 'archived'; db.close()
RestoreDelete(p) ==
  /\ proc[p].pc = "x_delete"
  /\ memory_tags' = DeleteTag(memory_tags, proc[p].id, "archived")
  /\ Set(p, Done(proc[p], "ok"))
  /\ UNCHANGED <<memories, seq, fts, clock, nops>>

\* ------------------------------------------------------- embed command
BeginEmbed(p) ==
  Start(p, [Idle EXCEPT !.op = "embed", !.pc = "b_select"])

\* the SELECT without its WHERE: every memory is embedded again
EmbedRowsAll(mem) == mem

\* SELECT id, content FROM memories WHERE embedding IS NULL
EmbedRows(mem) == SelectSeq(mem, LAMBDA r : r.embedding = NULL)

\* embed: getDb(); the SELECT; "All memories already have embeddings."
EmbedSelect(p) ==
  /\ proc[p].pc = "b_select"
  /\ fts' = getDb(memories, fts)
  /\ LET rows == EmbedRows(memories) IN
       Set(p, IF rows = <<>>
              THEN Done(proc[p], "nothing")
              ELSE [proc[p] EXCEPT !.pc = "b_embed", !.open = TRUE, !.i = 1,
                                   !.rows = [k \in 1..Len(rows) |-> RowOf(rows[k])]])
  /\ UNCHANGED <<memories, seq, memory_tags, clock, nops>>

\* embed: const buf = await embed(rows[i].content), the provider answers
EmbedCall(p) ==
  /\ proc[p].pc = "b_embed"
  /\ Local(p, [proc[p] EXCEPT !.pc = "b_update", !.calls = @ + 1])

\* embed: await embed(...) rejects and the process dies
EmbedCallFails(p) ==
  /\ proc[p].pc = "b_embed"
  /\ Local(p, [proc[p] EXCEPT !.pc = "failed", !.out.status = "failed",
                              !.calls = @ + 1])

\* embed: update.run(buf, rows[i].id); after the last row db.close()
EmbedUpdate(p) ==
  /\ proc[p].pc = "b_update"
  /\ LET r == proc[p].rows[proc[p].i] IN
       memories' = SetEmbedding(memories, r.id, embed(r.content))
  /\ Set(p, IF proc[p].i < Len(proc[p].rows)
            THEN [proc[p] EXCEPT !.pc = "b_embed", !.i = @ + 1]
            ELSE Done(proc[p], "ok"))
  /\ UNCHANGED <<seq, memory_tags, fts, clock, nops>>

\* ------------------------------------------------------------ process exit
\* ------------------------------------------------- ls, find, tasks [status]
BeginLs(p, in) ==
  \E o \in in.opts :
    Start(p, [Idle EXCEPT !.op = "ls", !.pc = "parse", !.opts = o])

BeginFind(p, in) ==
  \E o \in in.opts, t \in in.finds :
    Start(p, [Idle EXCEPT !.op = "find", !.pc = "parse", !.opts = o, !.text = t])

BeginTasks(p, in) ==
  \E o \in in.opts, st \in in.statuses :
    Start(p, [Idle EXCEPT !.op = "tasks", !.pc = "parse", !.opts = o, !.tag = st])

\* console.error(...); process.exit(1)
Reject(r, status) == [r EXCEPT !.pc = "failed", !.open = FALSE, !.out.status = status]

\* the handler up to its query: parseFilterOptions, for tasks the status
\* check, then getDb()
ListOpen(p, op, valid) ==
  /\ proc[p].pc = "parse"
  /\ proc[p].op = op
  /\ fts' = IF valid THEN getDb(memories, fts) ELSE fts
  /\ Set(p, IF valid THEN [proc[p] EXCEPT !.pc = "q_count", !.open = TRUE]
            ELSE Reject(proc[p], "invalid"))
  /\ UNCHANGED <<memories, seq, memory_tags, clock, nops>>

LsParse(p) == ListOpen(p, "ls", parseFilterOptions(proc[p].opts))

FindParse(p) == ListOpen(p, "find", parseFilterOptions(proc[p].opts))

TasksParse(p) ==
  ListOpen(p, "tasks",
           /\ parseFilterOptions(proc[p].opts)
           /\ proc[p].tag = "" \/ proc[p].tag \in Range(VALID_STATUSES))

\* the rows the handler's joins and wheres select, before ORDER BY and LIMIT
QueryMatches(r) ==
  CASE r.op = "ls" -> applyFilters(memories, memory_tags, r.opts)
    [] r.op = "find" -> searchMatches(memories, memory_tags, r.opts, fts, r.text)
    [] r.op = "tasks" -> tasksMatches(memories, memory_tags, r.opts, r.tag)

\* queryMemories: SELECT COUNT(DISTINCT m.id)
QueryCount(p) ==
  /\ proc[p].pc = "q_count"
  /\ Local(p, [proc[p] EXCEPT !.pc = "q_select", !.total = Len(QueryMatches(proc[p]))])

\* queryMemories: SELECT DISTINCT ... ORDER BY m.timestamp ... LIMIT ? OFFSET ?
QuerySelect(p) ==
  /\ proc[p].pc = "q_select"
  /\ \E res \in queryMemories(QueryMatches(proc[p]), EffectiveLimit(proc[p].opts),
                              proc[p].opts.tail, proc[p].opts.offset) :
       Local(p, [proc[p] EXCEPT !.pc = "print", !.page = res.rows])

\* the output loop: getTagsForMemory for the next row shown
PrintRow(p) ==
  LET r == proc[p]
      rows == r.page \o r.recent
  IN /\ r.pc = "print"
     /\ r.i < Len(rows)
     /\ Local(p, [r EXCEPT !.i = r.i + 1,
           !.shown = Append(r.shown, getTagsForMemory(memory_tags, rows[r.i + 1].id))])

\* printPagination; db.close()
ListReturn(p) ==
  /\ proc[p].pc = "print"
  /\ proc[p].i = Len(proc[p].page \o proc[p].recent)
  /\ Local(p, Done(proc[p], "ok"))

\* ---------------------------------------------------------------- similar
BeginSimilar(p, in) ==
  \E o \in in.opts, t \in in.finds :
    Start(p, [Idle EXCEPT !.op = "similar", !.pc = "sim_parse", !.opts = o, !.text = t])

SimilarParse(p) ==
  /\ proc[p].pc = "sim_parse"
  /\ Local(p, IF parseFilterOptions(proc[p].opts)
              THEN [proc[p] EXCEPT !.pc = "sim_embed"]
              ELSE Reject(proc[p], "invalid"))

\* queryBuf = await embed(text)
SimilarEmbed(p) ==
  /\ proc[p].pc = "sim_embed"
  /\ Local(p, [proc[p] EXCEPT !.pc = "sim_select", !.calls = @ + 1])

SimilarEmbedFails(p) ==
  /\ proc[p].pc = "sim_embed"
  /\ Local(p, [proc[p] EXCEPT !.pc = "failed", !.out.status = "embed_failed",
               !.calls = @ + 1])

\* getDb(); the SELECT; score, sort, slice
SimilarSelect(p) ==
  /\ proc[p].pc = "sim_select"
  /\ fts' = getDb(memories, fts)
  /\ LET res == similar(memories, memory_tags, proc[p].opts, proc[p].text)
     IN Set(p, [proc[p] EXCEPT !.pc = "print", !.open = TRUE, !.page = res.rows,
                               !.total = res.total])
  /\ UNCHANGED <<memories, seq, memory_tags, clock, nops>>

\* ----------------------------------------------------------------- status
BeginStatus(p) == Start(p, [Idle EXCEPT !.op = "status", !.pc = "st_tasks"])

\* queryMemories(db, { ...recentQuery, tail: 20 })
RecentTail == 20

\* getDb(); the open tasks: tag IN ('todo', 'wip'), no archived, no LIMIT
StatusTasks(p) ==
  /\ proc[p].pc = "st_tasks"
  /\ fts' = getDb(memories, fts)
  /\ \E res \in queryMemories(tasksMatches(memories, memory_tags, NoOpts, ""), 0, 0, 0) :
       Set(p, [proc[p] EXCEPT !.pc = "st_recent", !.open = TRUE, !.page = res.rows])
  /\ UNCHANGED <<memories, seq, memory_tags, clock, nops>>

\* the recent memories: the last RecentTail by timestamp, no archived
StatusRecent(p) ==
  /\ proc[p].pc = "st_recent"
  /\ \E res \in queryMemories(applyFilters(memories, memory_tags, NoOpts),
                              0, RecentTail, 0) :
       Local(p, [proc[p] EXCEPT !.pc = "print", !.recent = res.rows])

\* tag set of the memory a completed rm archived, kept until the process's
\* next command has exited
CycleOf(r) ==
  IF r.op = "rm" /\ r.pc = "done" /\ r.out.status = "ok"
  THEN [id |-> r.id, tags |-> TagSetOf(r.snap.memory_tags, r.id)]
  ELSE NoCycle

\* the command that just ended, what it reported and the tables it left
PrevOf(r) ==
  [op |-> r.op, id |-> r.id, tag |-> r.tag, status |-> r.out.status,
   store |-> Snap]

\* the pages ls, find and tasks have printed so far, each with its command
PrintedOf(r) ==
  IF r.op \in {"ls", "find", "tasks"} /\ r.pc = "done"
  THEN Append(r.printed, [op |-> r.op, text |-> r.text, tag |-> r.tag,
                          opts |-> r.opts, page |-> r.page])
  ELSE r.printed

Exit(p) ==
  /\ proc[p].pc \in {"done", "failed"}
  /\ Local(p, [Idle EXCEPT !.cycle = CycleOf(proc[p]), !.prev = PrevOf(proc[p]),
                           !.printed = PrintedOf(proc[p])])

\* ------------------------------------------------------------------- Next
\* the listing commands
Listing(p, in) ==
  \/ BeginLs(p, in) \/ BeginFind(p, in) \/ BeginTasks(p, in)
  \/ LsParse(p) \/ FindParse(p) \/ TasksParse(p)
  \/ QueryCount(p) \/ QuerySelect(p) \/ PrintRow(p) \/ ListReturn(p)
  \/ BeginSimilar(p, in) \/ SimilarParse(p) \/ SimilarEmbed(p)
  \/ SimilarEmbedFails(p) \/ SimilarSelect(p)
  \/ BeginStatus(p) \/ StatusTasks(p) \/ StatusRecent(p)

\* the commands that write
Run(p, in) ==
  \/ BeginAdd(p, in) \/ BeginTask(p, in)
  \/ StoreInsert(p) \/ StoreTag(p) \/ StoreEmbed(p) \/ StoreEmbedFails(p)
  \/ StoreUpdate(p) \/ StoreReturn(p)
  \/ BeginGet(p) \/ GetById(p)
  \/ BeginMark(p) \/ MarkCheck(p) \/ MarkTags(p) \/ MarkDelete(p) \/ MarkInsert(p)
  \/ BeginEdit(p, in) \/ EditSelect(p) \/ EditTags(p) \/ EditArchive(p)
  \/ EditInsert(p) \/ EditCopy(p) \/ EditEmbed(p) \/ EditEmbedFails(p)
  \/ EditUpdate(p) \/ EditReturn(p)
  \/ BeginTag(p, in) \/ BeginUntag(p, in) \/ BeginRm(p) \/ BeginRestore(p)
  \/ withMemory(p) \/ TagInsert(p) \/ TagRead(p) \/ UntagDelete(p) \/ UntagRead(p)
  \/ RmTags(p) \/ RmInsert(p) \/ RestoreTags(p) \/ RestoreDelete(p)
  \/ BeginEmbed(p) \/ EmbedSelect(p) \/ EmbedCall(p) \/ EmbedCallFails(p)
  \/ EmbedUpdate(p)

\* two processes, one command each, their statements interleaved
Next == \E p \in Procs : Run(p, ConcIn)

Spec == Init /\ [][Next]_vars

\* a listing command of one process while a command of another writes
ReadNext == Run(1, ConcIn) \/ Listing(2, ConcIn)

ReadInit ==
  (EmptyStore \/ SeededStore(SeedTagSets) \/ UnembeddedStore({{}, {"task", "todo"}}))
    /\ Quiet

ReadSpec == ReadInit /\ [][ReadNext]_vars

\* listing commands run alone on three tasks added within MaxClock seconds,
\* with or without the second one's embedding, and on a store of more than
\* one page
PageIn ==
  [opts |-> GivenZero(OptsOf({{}}, {FALSE}, {{}}, PageSizes, PageSizes, PageSizes)),
   finds |-> {"ab", "c1"}, statuses |-> {""}]

PageInit ==
  (\/ \E st \in Stamps(3), e \in BOOLEAN :
        Shelf(<<"ab", "abc", "AB">>, st,
              <<{"task", "todo"}, {"task", "wip"}, {"task", "todo"}>>,
              <<TRUE, e, TRUE>>)
   \/ BulkStore) /\ Quiet

PageNext == Listing(1, PageIn)

PageSpec == PageInit /\ [][PageNext]_vars

\* listing commands run alone with tag, archived and date filters
FilterTagSets ==
  {{}, {"archived"}, {"wip"}, {"todo", "wip"}, {"archived", "todo", "wip"}}

FilterIn ==
  [opts |-> OptsOf({{}, {"wip"}, {"todo", "wip"}}, BOOLEAN, {{}, {1}},
                   {0, 1}, {0, 1}, {0, 1}),
   finds |-> {"ab"}, statuses |-> {"", "wip"}]

FilterInit ==
  (\E t1 \in FilterTagSets, t2 \in FilterTagSets :
     Shelf(<<"ab", "AB", "ab">>, <<0, 0, 1>>, <<t1, t2, {}>>, <<TRUE, TRUE, FALSE>>))
    /\ Quiet

FilterNext == Listing(1, FilterIn)

FilterSpec == FilterInit /\ [][FilterNext]_vars

\* find run alone, for every content and every query text
FindTexts == {"ab", "AB", "abc", "a b", "b a", "a-b", "c"}

FindIn ==
  [opts |-> OptsOf({{}}, BOOLEAN, {{}}, {0}, {0}, {0}), finds |-> FindTexts,
   statuses |-> {""}]

FindInit ==
  (\E c1 \in FindTexts, c2 \in FindTexts, t \in {{}, {"archived"}} :
     Shelf(<<c1, c2>>, <<0, 0>>, <<t, {}>>, <<TRUE, TRUE>>)) /\ Quiet

FindNext ==
  \/ BeginFind(1, FindIn) \/ FindParse(1)
  \/ QueryCount(1) \/ QuerySelect(1) \/ PrintRow(1) \/ ListReturn(1)

FindSpec == FindInit /\ [][FindNext]_vars

\* one command run alone, on each seeded store
SeqInit ==
  (\/ EmptyStore
   \/ SeededStore(SUBSET Tags)
   \/ UnembeddedStore(SeedTagSets)
   \/ SeededPair(SeedTagSets, PairTagSets)) /\ Quiet

SeqNext == Run(1, SeqIn) \/ Listing(1, SeqIn)

SeqSpec == SeqInit /\ [][SeqNext]_vars

\* rm and restore, MaxOps commands one after the other, also on a store of
\* more than one page
LifeInit == (SeededStore(SeedTagSets) \/ BulkStore) /\ Quiet

LifeNext ==
  \/ BeginRm(1) \/ BeginRestore(1) \/ withMemory(1)
  \/ RmTags(1) \/ RmInsert(1) \/ RestoreTags(1) \/ RestoreDelete(1)
  \/ Exit(1)

LifeSpec == LifeInit /\ [][LifeNext]_vars

\* ls, find and tasks page by page: MaxOps commands one after the other on
\* an unchanged store of three tasks added in any seconds
PagerIn ==
  [opts |-> OptsOf({{}}, {FALSE}, {{}}, {1, MaxPage}, {0}, {0, 1, MaxPage}),
   finds |-> {"ab"}, statuses |-> {""}]

PagerInit ==
  (\E st \in Stamps(3) :
     Shelf(<<"ab", "abc", "AB">>, st,
           <<{"task", "todo"}, {"task", "wip"}, {"task", "todo"}>>,
           <<TRUE, TRUE, TRUE>>)) /\ Quiet

PagerNext ==
  \/ BeginLs(1, PagerIn) \/ BeginFind(1, PagerIn) \/ BeginTasks(1, PagerIn)
  \/ LsParse(1) \/ FindParse(1) \/ TasksParse(1)
  \/ QueryCount(1) \/ QuerySelect(1) \/ PrintRow(1) \/ ListReturn(1)
  \/ Exit(1)

PagerSpec == PagerInit /\ [][PagerNext]_vars

\* tag and untag, MaxOps commands one after the other
TagIn == [ConcIn EXCEPT !.tags = {"todo", "wip"}]

TagInit == (SeededStore(SeedTagSets) \/ SeededPair(SeedTagSets, PairTagSets)) /\ Quiet

TagNext ==
  \/ BeginTag(1, TagIn) \/ BeginUntag(1, TagIn) \/ withMemory(1)
  \/ TagInsert(1) \/ TagRead(1) \/ UntagDelete(1) \/ UntagRead(1)
  \/ Exit(1)

TagSpec == TagInit /\ [][TagNext]_vars

\* the embed command, MaxOps runs one after the other, on three memories of
\* which any may lack its embedding
EmbedInit ==
  (\E cs \in [1..3 -> Contents], em \in [1..3 -> BOOLEAN] :
     Shelf(cs, <<0, 0, 0>>, <<{}, {"task", "todo"}, {"archived"}>>, em))
    /\ Quiet

EmbedNext ==
  \/ BeginEmbed(1) \/ EmbedSelect(1) \/ EmbedCall(1) \/ EmbedCallFails(1)
  \/ EmbedUpdate(1) \/ Exit(1)

EmbedSpec == EmbedInit /\ [][EmbedNext]_vars

\* ================================================================ claims
StatusSet == Range(VALID_STATUSES)

StatusOf(mt, id) == TagSetOf(mt, id) \cap StatusSet

Ids(mem) == {mem[k].id : k \in 1..Len(mem)}

Exists(mem, id) == SelectById(mem, id) # <<>>

Finished(p, op) == proc[p].op = op /\ proc[p].pc = "done"

\* process p ended command op, which was given a text
FinishedWithText(p, op) == Finished(p, op) /\ proc[p].out.status # "no_input"

\* C1: every memory whose tag set contains task carries at most one of the
\* status tags todo, wip, done, in every state the commands can reach
C1_AtMostOneStatus ==
  \A id \in Ids(memories) :
    "task" \in TagSetOf(memory_tags, id)
      => Cardinality(StatusOf(memory_tags, id)) <= 1

\* C2: mark(id, s2) run alone on a memory carrying task, whatever status
\* tags it carried before (none, one, several), is accepted and leaves the
\* memory with exactly the one status tag s2
C2_MarkLeavesOneStatus ==
  \A p \in Procs :
    (/\ Finished(p, "mark")
     /\ Exists(proc[p].snap.memories, proc[p].id)
     /\ "task" \in TagSetOf(proc[p].snap.memory_tags, proc[p].id))
      => /\ proc[p].out.status = "ok"
         /\ StatusOf(memory_tags, proc[p].id) = {proc[p].tag}

W2_MarkFromSeveral ==
  /\ Finished(1, "mark")
  /\ proc[1].out.status = "ok"
  /\ StatusOf(proc[1].snap.memory_tags, proc[1].id) = {"todo", "wip"}
  /\ proc[1].tag = "done"

\* C11: mark(id, s) run alone on an existing memory whose tag set lacks task
\* is refused and leaves both tables as it found them, also when the memory
\* carries todo, wip or done
C11_MarkNonTaskRejected ==
  \A p \in Procs :
    (/\ Finished(p, "mark")
     /\ Exists(proc[p].snap.memories, proc[p].id)
     /\ "task" \notin TagSetOf(proc[p].snap.memory_tags, proc[p].id))
      => /\ proc[p].out.status = "not_task"
         /\ memories = proc[p].snap.memories
         /\ memory_tags = proc[p].snap.memory_tags

W11_MarkOnStatusWithoutTask ==
  /\ Finished(1, "mark")
  /\ proc[1].out.status = "not_task"
  /\ proc[1].tag = "done"
  /\ TagSetOf(proc[1].snap.memory_tags, proc[1].id) = {"todo", "wip"}

\* C3: two mark invocations of separate processes on the same task with
\* different targets leave, under every interleaving of their statements,
\* exactly one status tag, the target of one of the two
C3_ConcurrentMarksOneStatus ==
  (/\ Finished(1, "mark") /\ Finished(2, "mark")
   /\ proc[1].out.status = "ok" /\ proc[2].out.status = "ok"
   /\ proc[1].id = proc[2].id
   /\ proc[1].tag # proc[2].tag)
    => /\ Cardinality(StatusOf(memory_tags, proc[1].id)) = 1
       /\ StatusOf(memory_tags, proc[1].id) \subseteq {proc[1].tag, proc[2].tag}

EditMid == {"e_tags", "e_archive", "e_insert", "e_copy", "e_embed", "e_update", "e_row"}

\* nothing edit p writes is in the tables yet
EditNoneVisible(p) ==
  /\ memories = proc[p].snap.memories
  /\ memory_tags = proc[p].snap.memory_tags

\* everything edit p writes is in the tables
EditAllVisible(p) ==
  /\ proc[p].rowid # 0
  /\ Exists(memories, proc[p].rowid)
  /\ "archived" \in TagSetOf(memory_tags, proc[p].id)
  /\ TagSetOf(memory_tags, proc[p].rowid)
       = TagSetOf(proc[p].snap.memory_tags, proc[p].id) \ {"archived"}
  /\ SelectById(memories, proc[p].rowid)[1].embedding # NULL

\* C4: while an edit runs and every other process only reads, each state of
\* the tables shows none of the edit's writes or all of them (original
\* archived, new memory inserted, tags copied, embedding stored)
C4_EditAtomicToReaders ==
  \A p \in Procs :
    (/\ proc[p].op = "edit" /\ proc[p].pc \in EditMid
     /\ Exists(proc[p].snap.memories, proc[p].id)
     /\ \A q \in Procs \ {p} : proc[q].op \in {"none", "get"})
      => EditNoneVisible(p) \/ EditAllVisible(p)

\* C5: edit(id, C2) run alone on an existing id, archived or not: get(id)
\* still returns the original content and the original's tags are its previous
\* tags plus archived; the returned id is fresh and get of it returns C2 with
\* the original's previous tags minus archived
C5_EditVersions ==
  \A p \in Procs :
    (FinishedWithText(p, "edit") /\ Exists(proc[p].snap.memories, proc[p].id))
      => /\ proc[p].out.status = "ok"
         /\ Len(proc[p].out.row) = 1
         /\ LET before == getById(proc[p].snap.memories, proc[p].snap.memory_tags,
                                  proc[p].id)
                old == getById(memories, memory_tags, proc[p].id)
                newId == proc[p].out.row[1].id
                new == getById(memories, memory_tags, newId)
            IN /\ old.status = "ok"
               /\ old.row = before.row
               /\ Range(old.tags) = Range(before.tags) \cup {"archived"}
               /\ newId \notin Ids(proc[p].snap.memories)
               /\ new.status = "ok"
               /\ new.row[1].content = proc[p].text
               /\ Range(new.tags) = Range(before.tags) \ {"archived"}

W5_EditArchivedTagged ==
  /\ Finished(1, "edit")
  /\ proc[1].out.status = "ok"
  /\ proc[1].text = "c2"
  /\ TagSetOf(proc[1].snap.memory_tags, proc[1].id) = {"archived", "task", "wip"}

\* s lists distinct tags in ascending byte order
SortedDistinct(s) ==
  \A a, b \in 1..Len(s) : a < b => TagRank(s[a]) < TagRank(s[b])

\* C6: add(C, T) then get of the returned id yields content C and the
\* distinct elements of T in lexicographic order
C6_AddThenGet ==
  \A p \in Procs :
    FinishedWithText(p, "add")
      => /\ Len(proc[p].out.row) = 1
         /\ LET g == getById(memories, memory_tags, proc[p].out.row[1].id)
            IN /\ g.status = "ok"
               /\ g.row[1].content = proc[p].text
               /\ Range(g.tags) = Range(proc[p].tags)
               /\ SortedDistinct(g.tags)

W6_AddUnsortedList ==
  /\ Finished(1, "add")
  /\ proc[1].tags = <<"wip", "archived">>
  /\ proc[1].text = "c2"

PageIds(r) == {r.rows[k].id : k \in 1..Len(r.rows)}

ListDefault == list(memories, memory_tags, NoFilter, 0, 0, 0)

ListAll == list(memories, memory_tags, [NoFilter EXCEPT !.all = TRUE], 0, 0, 0)

\* a restore of the memory this process's previous command, an rm, archived
Restored(p) ==
  /\ Finished(p, "restore") /\ proc[p].out.status = "ok"
  /\ proc[p].cycle.id = proc[p].id

\* an rm of an existing memory that was not archived
Removed(p) ==
  /\ Finished(p, "rm")
  /\ Exists(proc[p].snap.memories, proc[p].id)
  /\ "archived" \notin TagSetOf(proc[p].snap.memory_tags, proc[p].id)

\* C7 as stated: after rm(id) the default list excludes id and list with
\* include_archived includes it; after a following restore(id) the default
\* list includes id again and the tag set of id is what it was before the rm
C7_RmRestoreCycle ==
  \A p \in Procs :
    /\ Removed(p)
         => /\ proc[p].out.status = "ok"
            /\ \A r \in ListDefault : proc[p].id \notin PageIds(r)
            /\ \A r \in ListAll : proc[p].id \in PageIds(r)
    /\ Restored(p)
         => /\ \A r \in ListDefault : proc[p].id \in PageIds(r)
            /\ TagSetOf(memory_tags, proc[p].id) = proc[p].cycle.tags

\* C7 amended: the two inclusions hold of a listing with at most
\* DefaultLimit matches, the page a listing without limit or tail returns
C7_RmRestoreCycleOnePage ==
  \A p \in Procs :
    /\ Removed(p)
         => /\ proc[p].out.status = "ok"
            /\ \A r \in ListDefault : proc[p].id \notin PageIds(r)
            /\ \A r \in ListAll :
                 r.total <= DefaultLimit => proc[p].id \in PageIds(r)
    /\ Restored(p)
         => /\ \A r \in ListDefault :
                 r.total <= DefaultLimit => proc[p].id \in PageIds(r)
            /\ TagSetOf(memory_tags, proc[p].id) = proc[p].cycle.tags

W7_CycleOnTaggedMemory ==
  /\ Restored(1)
  /\ proc[1].cycle.tags = {"task", "todo"}
  /\ \E r \in ListDefault : proc[1].id \in PageIds(r)

\* C8: the content and the timestamp get returns for a memory are the ones
\* it was inserted with, whatever statement of whatever command runs next
C8_ContentTimestampImmutable ==
  [][\A id \in Ids(memories) :
       getById(memories', memory_tags', id).row
         = getById(memories, memory_tags, id).row]_vars

W8_EditedAndReembedded ==
  /\ proc[1].op = "edit" /\ proc[1].pc = "e_row"
  /\ proc[2].op = "embed" /\ proc[2].pc = "done" /\ proc[2].out.status = "ok"

\* C9: ids are unique and strictly increasing in insertion order, and no id
\* is assigned twice, under every interleaving of add, task and edit
C9_UniqueIncreasingIds ==
  /\ \A a, b \in 1..Len(memories) : a < b => memories[a].id < memories[b].id
  /\ \A k \in 1..Len(memories) : memories[k].id \in 1..seq
  /\ \A p, q \in Procs :
       (p # q /\ proc[p].rowid # 0 /\ proc[q].rowid # 0)
         => proc[p].rowid # proc[q].rowid

W9_ConcurrentInserts ==
  /\ proc[1].op = "edit" /\ proc[1].pc = "e_embed"
  /\ proc[2].op = "task" /\ proc[2].pc = "s_embed"
  /\ proc[1].rowid > proc[2].rowid

\* C10: no command deletes a memory: an id get can retrieve stays
\* retrievable after every step
C10_NoPhysicalDeletion ==
  [][\A id \in Ids(memories) :
       getById(memories', memory_tags', id).status = "ok"]_vars

W10_RemovedStillThere ==
  /\ Finished(1, "rm") /\ proc[1].out.status = "ok"
  /\ getById(memories, memory_tags, proc[1].id).status = "ok"
  /\ Finished(2, "edit") /\ proc[2].out.status = "ok" /\ proc[2].id = proc[1].id
\* ------------------------------------------------------ listing claims
ListingOps == {"ls", "find", "tasks", "similar"}

Listed(p, op) == Finished(p, op) /\ proc[p].out.status = "ok"

PageIdSeq(r) == [k \in 1..Len(r.page) |-> r.page[k].id]

Unpaged(o) == o.limit = 0 /\ o.tail = 0 /\ o.offset = 0

\* the tag and date filters of options o hold of memory m
PassesOther(m, o) ==
  /\ o.tags = {} \/ \E t \in o.tags : <<m.id, t>> \in memory_tags
  /\ \A t \in o.from : m.timestamp >= t
  /\ \A t \in o.to : m.timestamp <= t

PassesFilters(m, o) ==
  /\ PassesOther(m, o)
  /\ o.all \/ <<m.id, "archived">> \notin memory_tags

\* what the command of r selects on, besides the filters
Selects(m, r) ==
  CASE r.op = "ls" -> TRUE
    [] r.op = "find" -> ftsMatch(m.content, r.text)
    [] r.op = "tasks" -> \E t \in TaskStatuses(r.tag) : <<m.id, t>> \in memory_tags
    [] r.op = "similar" -> m.embedding # NULL

EligibleIds(r) ==
  {memories[k].id : k \in {j \in 1..Len(memories) :
                             PassesFilters(memories[j], r.opts) /\ Selects(memories[j], r)}}

\* first n and last n elements of s
FirstN(s, n) == SubSeq(s, 1, Min(n, Len(s)))
LastN(s, n) == SubSeq(s, Len(s) - Min(n, Len(s)) + 1, Len(s))

IdsInOrder(mem) == [k \in 1..Len(mem) |-> mem[k].id]

\* C12: ls with limit N gives the first N matching memories in insertion
\* order and with tail N the last N in insertion order, whatever seconds the
\* memories were added in
C12_PagesInInsertionOrder ==
  \A p \in Procs :
    LET r == proc[p]
        ids == IdsInOrder(applyFilters(memories, memory_tags, r.opts))
    IN (Listed(p, "ls") /\ r.opts.offset = 0)
         => /\ (r.opts.limit > 0 => PageIdSeq(r) = FirstN(ids, r.opts.limit))
            /\ (r.opts.tail > 0 => PageIdSeq(r) = LastN(ids, r.opts.tail))

\* C13: a listing command given both --limit and --tail, whatever their
\* values, is rejected with a validation error and returns no page (the
\* embedding provider answering)
C13_LimitAndTailRejected ==
  \A p \in Procs :
    (/\ proc[p].op \in ListingOps
     /\ proc[p].pc \in {"done", "failed"}
     /\ proc[p].out.status # "embed_failed"
     /\ proc[p].opts.given = {"limit", "tail"})
      => /\ proc[p].out.status = "invalid"
         /\ proc[p].page = <<>>

\* C14: a listing command given neither limit nor tail returns the first
\* DefaultLimit matches, or all of them when there are fewer
C14_DefaultPageOfTwenty ==
  \A p \in Procs :
    (/\ proc[p].op \in ListingOps
     /\ Listed(p, proc[p].op)
     /\ Unpaged(proc[p].opts))
      => Len(proc[p].page) = Min(DefaultLimit, Cardinality(EligibleIds(proc[p])))

\* C15: the total a listing command reports is the number of distinct
\* memories matching its filters, whatever limit, tail and offset are
C15_TotalCountsDistinctMatches ==
  \A p \in Procs :
    (proc[p].op \in ListingOps /\ Listed(p, proc[p].op))
      => proc[p].total = Cardinality(EligibleIds(proc[p]))

\* cs holds word as a run of neighbouring characters
SubstringIn(cs, word) ==
  \E k \in 0..(Len(cs) - Len(word)) :
    \A j \in 1..Len(word) : cs[k + j] = word[j]

\* every whitespace-separated token of text occurs in content, letter case
\* aside
ContainsEveryToken(content, text) ==
  LET words == SplitWords(Chars(text))
  IN \A k \in 1..Len(words) :
       SubstringIn(FoldAll(Chars(content)), FoldAll(words[k]))

\* C16: find(text) selects exactly the memories that pass the filters and
\* whose content contains every whitespace-separated token of text, compared
\* case-insensitively
C16_FindSelectsSubstringMatches ==
  \A p \in Procs :
    (Listed(p, "find") /\ Unpaged(proc[p].opts))
      => Range(PageIdSeq(proc[p])) =
           {memories[k].id : k \in {j \in 1..Len(memories) :
              /\ PassesFilters(memories[j], proc[p].opts)
              /\ ContainsEveryToken(memories[j].content, proc[p].text)}}

\* C17: in every page of similar a memory of higher score stands before
\* every memory of lower score, and memories of one score stand in insertion
\* order
C17_SimilarPageDescending ==
  \A p \in Procs :
    Listed(p, "similar")
      => \A a, b \in 1..Len(proc[p].page) :
           a < b => LET x == proc[p].page[a]
                        y == proc[p].page[b]
                    IN \/ x.similarity > y.similarity
                       \/ x.similarity = y.similarity /\ x.id < y.id

\* score of memory id against the query text
ScoreOf(id, text) ==
  cosineSimilarity(Vec(text), Float32Array(SelectById(memories, id)[1].embedding))

\* the ids of S by descending score, equal scores by ascending id
RECURSIVE Ranking(_, _)
Ranking(S, text) ==
  IF S = {} THEN <<>>
  ELSE LET top == CHOOSE i \in S : \A j \in S :
                    \/ ScoreOf(i, text) > ScoreOf(j, text)
                    \/ ScoreOf(i, text) = ScoreOf(j, text) /\ i <= j
       IN <<top>> \o Ranking(S \ {top}, text)

\* C18: similar with limit N and offset K returns elements K .. K+N-1 of the
\* score-descending ranking of all memories that match the filters and have
\* an embedding
C18_SimilarWindowOfRanking ==
  \A p \in Procs :
    LET r == proc[p]
        rank == Ranking(EligibleIds(r), r.text)
    IN (Listed(p, "similar") /\ r.opts.limit > 0)
         => PageIdSeq(r) = SubSeq(rank, r.opts.offset + 1,
                                  Min(r.opts.offset + r.opts.limit, Len(rank)))

\* C19: with a tag filter a memory is listed iff it carries at least one of
\* the listed tags, and one carrying several is listed once and counted once
C19_AnyOfTagsListedOnce ==
  \A p \in Procs :
    LET r == proc[p]
    IN (/\ r.op \in ListingOps
        /\ Listed(p, r.op)
        /\ r.opts.tags # {}
        /\ Unpaged(r.opts))
         => /\ Range(PageIdSeq(r)) = EligibleIds(r)
            /\ \A a, b \in 1..Len(r.page) : a # b => r.page[a].id # r.page[b].id
            /\ r.total = Len(r.page)

\* the rows a query of process p selects in this step
NewRows(p) ==
  (IF proc'[p].page # proc[p].page THEN proc'[p].page ELSE <<>>)
    \o (IF proc'[p].recent # proc[p].recent THEN proc'[p].recent ELSE <<>>)

\* C20: whenever a listing command selects its rows, without -a none of
\* them belongs to a memory carrying archived, and with -a a memory is
\* selected whether or not it carries archived
C20_ArchivedOnlyWithAll ==
  [][\A p \in Procs :
       LET r == proc'[p]
       IN (r.op \in ListingOps \cup {"status"} /\ NewRows(p) # <<>>)
            => /\ ~r.opts.all
                    => \A k \in 1..Len(NewRows(p)) :
                         <<NewRows(p)[k].id, "archived">> \notin memory_tags
               /\ (r.opts.all /\ Unpaged(r.opts) /\ r.op # "status")
                    => Range(PageIdSeq(r)) =
                         {memories[k].id : k \in {j \in 1..Len(memories) :
                            PassesOther(memories[j], r.opts) /\ Selects(memories[j], r)}}
    ]_vars

W20_ArchivedAmongMatches ==
  /\ Listed(1, "ls")
  /\ proc[1].opts.tags = {"wip"}
  /\ memory_tags = {<<1, "archived">>, <<1, "todo">>, <<1, "wip">>, <<2, "wip">>}
  /\ PageIdSeq(proc[1]) \in {<<2>>, <<1, 2>>}

\* C21: a task command that returns leaves the memory it created with
\* exactly the tags task, todo and the caller's extra tags, whatever the
\* list of extra tags (empty, repeated, or naming archived)
C21_TaskTagSet ==
  \A p \in Procs :
    (Finished(p, "task") /\ proc[p].out.status = "ok")
      => /\ proc[p].rowid \notin Ids(proc[p].snap.memories)
         /\ Exists(memories, proc[p].rowid)
         /\ TagSetOf(memory_tags, proc[p].rowid)
              = {"task", "todo"} \cup Range(proc[p].extra)
         /\ Range(proc[p].out.tags) = {"task", "todo"} \cup Range(proc[p].extra)

W21_TaskWithExtraTags ==
  /\ Finished(1, "task")
  /\ proc[1].out.status = "ok"
  /\ proc[1].extra = <<"wip", "archived">>
  /\ TagSetOf(memory_tags, proc[1].rowid) = {"archived", "task", "todo", "wip"}

\* the non-archived memories carrying task and a status tag among ss
TaskIds(ss) ==
  {memories[k].id : k \in {j \in 1..Len(memories) :
     LET T == TagSetOf(memory_tags, memories[j].id)
     IN "task" \in T /\ "archived" \notin T /\ T \cap ss # {}}}

\* C22: a tasks command given no filter and no paging option lists exactly
\* the non-archived memories that carry task and a status tag of the
\* requested set (todo and wip when no status is named); a memory without
\* task is never listed
C22_TasksListOnlyTasks ==
  \A p \in Procs :
    LET r == proc[p]
    IN (Listed(p, "tasks") /\ Unpaged(r.opts) /\ r.opts.tags = {} /\ ~r.opts.all)
         => /\ Range(PageIdSeq(r)) = TaskIds(TaskStatuses(r.tag))
            /\ r.total = Cardinality(TaskIds(TaskStatuses(r.tag)))

\* times tag t occurs in the list ts
Occurrences(ts, t) == Cardinality({k \in 1..Len(ts) : ts[k] = t})

\* process p ended command op on a memory that was there when it started
EndedOn(p, op) ==
  Finished(p, op) /\ Exists(proc[p].snap.memories, proc[p].id)

\* C23: tag(id, t) adds t and nothing else, lists it once, and run a second
\* time leaves the tables as the first run left them; untag(id, t) on a
\* memory without t reports that and leaves the tables as they were; on a
\* memory with t it removes the pair (id, t) and nothing else
C23_TagIdempotentUntagExact ==
  \A p \in Procs :
    LET r == proc[p]
        had == <<r.id, r.tag>> \in r.snap.memory_tags
    IN /\ EndedOn(p, "tag")
            => /\ r.out.status = "ok"
               /\ memories = r.snap.memories
               /\ memory_tags = r.snap.memory_tags \cup {<<r.id, r.tag>>}
               /\ Occurrences(r.out.tags, r.tag) = 1
               /\ (r.prev.op = "tag" /\ r.prev.id = r.id /\ r.prev.tag = r.tag)
                    => Snap = r.prev.store
       /\ EndedOn(p, "untag")
            => /\ memories = r.snap.memories
               /\ ~had => r.out.status = "nochange" /\ memory_tags = r.snap.memory_tags
               /\ had => /\ r.out.status = "ok"
                         /\ memory_tags = r.snap.memory_tags \ {<<r.id, r.tag>>}
                         /\ r.tag \notin Range(r.out.tags)

\* the same tag command twice on a memory carrying other tags, and an untag
\* of a tag the memory does not carry
W23_TagTwice ==
  /\ EndedOn(1, "tag")
  /\ proc[1].prev.op = "tag" /\ proc[1].prev.id = proc[1].id
  /\ proc[1].prev.tag = proc[1].tag /\ proc[1].prev.status = "ok"
  /\ proc[1].tag = "wip"
  /\ TagSetOf(memory_tags, proc[1].id) = {"task", "todo", "wip"}

\* C24: rm on a memory already archived and restore on one not archived end
\* normally, report that nothing was to do, and leave both tables as they
\* were; rm on a memory not archived adds the tag archived and nothing
\* else, restore on an archived one removes archived and nothing else
C24_RmRestoreNoOpOrExact ==
  \A p \in Procs :
    LET r == proc[p]
        was == <<r.id, "archived">> \in r.snap.memory_tags
    IN /\ EndedOn(p, "rm")
            => /\ memories = r.snap.memories
               /\ was => r.out.status = "already" /\ memory_tags = r.snap.memory_tags
               /\ ~was => /\ r.out.status = "ok"
                          /\ memory_tags = r.snap.memory_tags \cup {<<r.id, "archived">>}
       /\ EndedOn(p, "restore")
            => /\ memories = r.snap.memories
               /\ ~was => r.out.status = "not_archived" /\ memory_tags = r.snap.memory_tags
               /\ was => /\ r.out.status = "ok"
                         /\ memory_tags = r.snap.memory_tags \ {<<r.id, "archived">>}

\* rm right after an rm of the same tagged memory
W24_RmTwice ==
  /\ EndedOn(1, "rm")
  /\ proc[1].out.status = "already"
  /\ proc[1].prev.op = "rm" /\ proc[1].prev.id = proc[1].id
  /\ proc[1].prev.status = "ok"
  /\ TagSetOf(memory_tags, proc[1].id) = {"archived", "task", "todo"}

\* the commands whose text goes through readInput
TextOps == {"add", "task", "edit"}

\* C26: add, task and edit given an empty text, as a word on the command
\* line or on standard input, end with the "No input provided." error and
\* insert no memory
C26_EmptyContentRejected ==
  \A p \in Procs :
    (proc[p].op \in TextOps /\ proc[p].text = "")
      => /\ proc[p].pc = "done"
         /\ proc[p].out.status = "no_input"
         /\ Len(memories) = Len(proc[p].snap.memories)

\* the commands that name a memory by its id
IdOps == {"get", "edit", "tag", "untag", "rm", "restore", "mark"}

\* C25: get, edit, tag, untag, rm, restore and mark given an id that no
\* memory has (and, for edit, a text) report that no memory was found and
\* leave both tables as they were
C25_UnknownIdNotFound ==
  \A p \in Procs :
    (/\ proc[p].op \in IdOps
     /\ proc[p].pc = "done"
     /\ proc[p].out.status # "no_input"
     /\ ~Exists(proc[p].snap.memories, proc[p].id))
      => /\ proc[p].out.status = "notfound"
         /\ Snap = proc[p].snap

W25_TagUnknownId ==
  /\ Finished(1, "tag")
  /\ proc[1].out.status = "notfound"
  /\ proc[1].id = 2
  /\ TagSetOf(memory_tags, 1) = {"task", "todo"}

\* the row of memories with this id
RowWithId(mem, id) == SelectById(mem, id)[1]

\* C27: when add, task or edit has returned a memory, that memory is in the
\* table with an embedding that is not NULL, the one of its content
C27_ReturnedMemoryEmbedded ==
  \A p \in Procs :
    (proc[p].op \in TextOps /\ proc[p].pc = "done" /\ proc[p].out.status = "ok")
      => /\ Exists(memories, proc[p].rowid)
         /\ proc[p].out.row = <<RowOf(RowWithId(memories, proc[p].rowid))>>
         /\ RowWithId(memories, proc[p].rowid).embedding # NULL
         /\ RowWithId(memories, proc[p].rowid).embedding = embed(proc[p].text)

W27_EditReturnsEmbedded ==
  /\ Finished(1, "edit")
  /\ proc[1].out.status = "ok"
  /\ proc[1].text = "c2"
  /\ RowWithId(memories, 1).embedding = NULL
  /\ RowWithId(memories, 2).embedding = embed("c2")

\* C28: when the embedding provider fails inside add, task or edit, the
\* tables are what they were before the command: no new memory, no new tag
\* row, and the memory edit was given is not left carrying archived
C28_ProviderFailureLeavesNothing ==
  \A p \in Procs :
    (proc[p].op \in TextOps /\ proc[p].pc = "failed") => Snap = proc[p].snap

\* both processes ran edit on the same memory, which was there before the
\* first of them started, and both have ended
TwoEditsEnded ==
  /\ \A p \in Procs : proc[p].op = "edit" /\ proc[p].pc \in {"done", "failed"}
  /\ proc[1].id = proc[2].id
  /\ Exists(proc[1].snap.memories, proc[1].id)

\* C29: two edits of the same existing id, their statements interleaved in
\* any order and the provider answering both: both return a memory, the
\* original carries archived, the two new memories have different ids that
\* are new, and each carries the tags the original had before the edits
\* except archived
C29_ConcurrentEditsBothVersion ==
  (TwoEditsEnded /\ \A p \in Procs : proc[p].pc = "done")
    => LET before == TagSetOf(proc[1].snap.memory_tags, proc[1].id)
       IN /\ \A p \in Procs :
               /\ proc[p].out.status = "ok"
               /\ Exists(memories, proc[p].rowid)
               /\ proc[p].rowid \notin Ids(proc[1].snap.memories)
               /\ TagSetOf(memory_tags, proc[p].rowid) = before \ {"archived"}
          /\ proc[1].rowid # proc[2].rowid
          /\ Len(memories) = Len(proc[1].snap.memories) + 2
          /\ TagSetOf(memory_tags, proc[1].id) = before \cup {"archived"}

\* the edit that started second inserted its row first
W29_EditsInterleaved ==
  /\ TwoEditsEnded
  /\ \A p \in Procs : proc[p].out.status = "ok"
  /\ TagSetOf(proc[1].snap.memory_tags, 1) = {"archived", "task", "wip"}
  /\ proc[2].rowid = 2 /\ proc[1].rowid = 3

\* the positions of the memories without an embedding
Lacking(mem) == {k \in 1..Len(mem) : mem[k].embedding = NULL}

\* C30: an embed command run alone with the provider answering ends after
\* one provider call for each memory that had no embedding; then every
\* memory has an embedding, the ones that had one keep theirs, and nothing
\* else in the tables has changed
C30_EmbedFillsMissingOnly ==
  \A p \in Procs :
    Finished(p, "embed")
      => LET before == proc[p].snap.memories
         IN /\ proc[p].out.status = IF Lacking(before) = {} THEN "nothing" ELSE "ok"
            /\ proc[p].calls = Cardinality(Lacking(before))
            /\ Len(memories) = Len(before)
            /\ memory_tags = proc[p].snap.memory_tags
            /\ \A k \in 1..Len(memories) :
                 /\ memories[k].embedding # NULL
                 /\ RowOf(memories[k]) = RowOf(before[k])
                 /\ k \notin Lacking(before) => memories[k] = before[k]
                 /\ k \in Lacking(before)
                      => memories[k].embedding = embed(before[k].content)

W30_EmbedTwoOfThree ==
  /\ Finished(1, "embed")
  /\ proc[1].calls = 2
  /\ Lacking(proc[1].snap.memories) = {1, 3}
  /\ memories[2].embedding = embed("c1")
  /\ memories[3].content = "c2"

\* the rows matching the command of r
MatchRows(r) ==
  {RowOf(memories[k]) : k \in {j \in 1..Len(memories) :
      PassesFilters(memories[j], r.opts) /\ Selects(memories[j], r)}}

\* elements K+1 .. K+N of M, counted from its start
WindowFromStart(M, N, K) == SubSeq(M, K + 1, Min(K + N, Len(M)))

\* the N elements of M before its last K
WindowFromEnd(M, N, K) ==
  IF K >= Len(M) THEN <<>> ELSE SubSeq(M, Max(1, Len(M) - K - N + 1), Len(M) - K)

\* C31: ls, find and tasks with limit N >= 1 and offset K return elements
\* K .. K+N-1 (counted from 0) of the matches in ascending order of
\* timestamp, and with tail N >= 1 and offset K the N matches before the
\* last K, in ascending order
C31_LimitTailOffsetWindows ==
  \A p \in Procs :
    LET r == proc[p]
        Ms == Orderings(MatchRows(r), FALSE)
    IN (r.op \in {"ls", "find", "tasks"} /\ Listed(p, r.op))
         => /\ (r.opts.limit > 0 /\ r.opts.tail = 0)
                 => \E M \in Ms : r.page = WindowFromStart(M, r.opts.limit, r.opts.offset)
            /\ (r.opts.tail > 0 /\ r.opts.limit = 0)
                 => \E M \in Ms : r.page = WindowFromEnd(M, r.opts.tail, r.opts.offset)

\* tail 2 with offset 1 on three matches added in different seconds
W31_TailWithOffset ==
  /\ Listed(1, "ls")
  /\ proc[1].opts.tail = 2 /\ proc[1].opts.offset = 1 /\ proc[1].opts.limit = 0
  /\ Len(memories) = 3
  /\ memories[1].timestamp < memories[2].timestamp
  /\ PageIdSeq(proc[1]) = <<1, 2>>

\* the index holds one entry for each row of memories, with its content
IndexCoversStore ==
  fts = {<<memories[k].id, memories[k].content>> : k \in 1..Len(memories)}

\* C32: between any two statements the full-text index holds exactly the
\* memories of the table, and a find that selects its rows gets every
\* memory visible then that passes its filters and contains its words,
\* whichever command inserted it and however far that command has got
C32_IndexCoversStore ==
  /\ []IndexCoversStore
  /\ [][\A p \in Procs :
          (proc'[p].op = "find" /\ proc[p].pc = "q_select" /\ proc'[p].pc = "print")
            => Range(PageIdSeq(proc'[p])) = EligibleIds(proc'[p])]_vars

\* a find lists the row an edit has inserted and not yet tagged or embedded
W32_FindSeesRowOfRunningEdit ==
  /\ proc[1].op = "edit" /\ proc[1].pc \in {"e_copy", "e_embed"}
  /\ proc[2].op = "find" /\ proc[2].pc = "print"
  /\ proc[1].rowid \in Range(PageIdSeq(proc[2]))

\* the rows of the memories not carrying archived
LiveRows ==
  {RowOf(memories[k]) : k \in {j \in 1..Len(memories) :
      <<memories[j].id, "archived">> \notin memory_tags}}

\* rows is in ascending order of timestamp
Ascending(rows) ==
  \A a, b \in 1..Len(rows) : a < b => rows[a].timestamp <= rows[b].timestamp

\* C33: status lists as open tasks every non-archived task carrying todo or
\* wip, all of them, in ascending order of timestamp, and among them no
\* archived memory and no task carrying done; as recent it lists the last
\* RecentTail non-archived memories in ascending order
C33_StatusOpenAndRecent ==
  \A p \in Procs :
    LET r == proc[p] IN
      Finished(p, "status")
        => /\ TaskIds({"todo", "wip"}) \subseteq Range(PageIdSeq(r))
           /\ Ascending(r.page)
           /\ \A k \in 1..Len(r.page) :
                LET T == TagSetOf(memory_tags, r.page[k].id)
                IN "archived" \notin T /\ ~("task" \in T /\ "done" \in T)
           /\ \E M \in Orderings(LiveRows, FALSE) :
                r.recent = WindowFromEnd(M, RecentTail, 0)

\* C34: a command that has ended, by returning, by a not-found or
\* validation message, or because the embedding provider failed, has
\* closed the database handle it opened
C34_HandleClosedOnEveryExit ==
  \A p \in Procs : proc[p].pc \in {"done", "failed"} => ~proc[p].open

\* the pages one after the other
RECURSIVE Flatten(_)
Flatten(pages) ==
  IF pages = <<>> THEN <<>> ELSE Head(pages).page \o Flatten(Tail(pages))

\* the pages process p has got, the one of its ended command last
PagesOf(p) == PrintedOf(proc[p])

\* the commands of process p were one command with limit N at offsets
\* 0, N, 2N, ..., and together their pages have room for every match
PagedThrough(p) ==
  LET r == proc[p]
      pages == PagesOf(p)
  IN /\ r.op \in {"ls", "find", "tasks"} /\ Listed(p, r.op)
     /\ r.opts.limit > 0
     /\ \A i \in 1..Len(pages) :
          /\ pages[i].op = r.op /\ pages[i].text = r.text /\ pages[i].tag = r.tag
          /\ pages[i].opts = [r.opts EXCEPT !.offset = (i - 1) * r.opts.limit]
     /\ r.total <= Len(pages) * r.opts.limit

\* C35: on an unchanged store, the pages of ls, find or tasks with limit N
\* at offsets 0, N, 2N, ... put one after the other are the matches in
\* ascending order, each match once, also when memories share a second
C35_PagesConcatenate ==
  \A p \in Procs :
    PagedThrough(p)
      => LET all == Flatten(PagesOf(p))
         IN /\ Len(all) = Cardinality(EligibleIds(proc[p]))
            /\ {all[k].id : k \in 1..Len(all)} = EligibleIds(proc[p])
            /\ Ascending(all)

\* the rows of memory_tags that are not a status tag of memory id
OtherTagRows(mt, id) == {r \in mt : ~(r[1] = id /\ r[2] \in StatusSet)}

\* C36: a mark that is accepted leaves the memories table as it was
\* (contents, timestamps, embeddings), and of memory_tags every row that
\* is not a status tag of the marked memory: its task, archived and other
\* tags, and all tags of every other memory
C36_MarkFrame ==
  \A p \in Procs :
    (Finished(p, "mark") /\ proc[p].out.status = "ok")
      => /\ memories = proc[p].snap.memories
         /\ OtherTagRows(memory_tags, proc[p].id)
              = OtherTagRows(proc[p].snap.memory_tags, proc[p].id)

\* the first of two memories, archived, is marked; the second is a wip task
W36_MarkBesideOtherTask ==
  /\ Finished(1, "mark") /\ proc[1].out.status = "ok"
  /\ proc[1].id = 1 /\ proc[1].tag = "done"
  /\ TagSetOf(proc[1].snap.memory_tags, 1) = {"archived", "task", "wip"}
  /\ TagSetOf(memory_tags, 1) = {"archived", "done", "task"}
  /\ TagSetOf(memory_tags, 2) = {"task", "wip"}

\* in this step edit p returns its new version while tag q, on the same
\* memory and with a tag other than archived, has already returned
EditEndsAfterTag(p, q) ==
  /\ proc[p].op = "edit" /\ proc[p].pc # "done"
  /\ proc'[p].pc = "done" /\ proc'[p].out.status = "ok"
  /\ proc[q].op = "tag" /\ proc[q].pc = "done" /\ proc[q].out.status = "ok"
  /\ proc[q].id = proc[p].id
  /\ proc[q].tag # "archived"

\* C37: when a tag(id, t), t not archived, has completed before an edit of
\* the same id completes, however their statements were interleaved, the
\* new version the edit returns carries t
C37_EditKeepsConcurrentTag ==
  [][\A p, q \in Procs :
       EditEndsAfterTag(p, q)
         => /\ <<proc'[p].rowid, proc[q].tag>> \in memory_tags'
            /\ proc[q].tag \in Range(proc'[p].out.tags)]_vars

====
